---- MODULE Spec2Model ----
(***************************************************************************)
(* Lilia-backend, src/server.js: an express server over two Postgres       *)
(* tables (donations, state).  The model keeps the two tables, the         *)
(* bigserial sequence, the process environment and the position of every   *)
(* request handler between its awaits.                                     *)
(*                                                                         *)
(* A JavaScript value is a record [k, v, s, a]:                            *)
(*   k = "num"   the integer number v                                      *)
(*   k = "frac"  the number v + 0.5 (a number that is not an integer)      *)
(*   k = "str"   the string s, a sequence of one-character strings         *)
(*   k = "arr"   the array with the elements a                             *)
(*   k = "null", k = "undef"                                               *)
(* Text (JS strings, Postgres text) is a sequence of one-character strings.*)
(***************************************************************************)
EXTENDS Integers, Sequences, FiniteSets, TLC

\* ------------------------------------------------------------ bounds
MaxRequests == 3

MaxRestarts == 2

\* ------------------------------------------------------------ JS values
Num(i) == [k |-> "num", v |-> i, s |-> <<>>, a |-> <<>>]
Frac(i) == [k |-> "frac", v |-> i, s |-> <<>>, a |-> <<>>]
Str(t) == [k |-> "str", v |-> 0, s |-> t, a |-> <<>>]
Arr(e) == [k |-> "arr", v |-> 0, s |-> <<>>, a |-> e]
Null == [k |-> "null", v |-> 0, s |-> <<>>, a |-> <<>>]
Undef == [k |-> "undef", v |-> 0, s |-> <<>>, a |-> <<>>]

DigitChars == <<"0", "1", "2", "3", "4", "5", "6", "7", "8", "9">>

IsDigit(ch) == \E d \in 1..10 : DigitChars[d] = ch

DigitVal(ch) == (CHOOSE d \in 1..10 : DigitChars[d] = ch) - 1

RECURSIVE Digits(_)
\* the decimal digits of a natural number
Digits(n) == IF n < 10 THEN <<DigitChars[n + 1]>>
             ELSE Digits(n \div 10) \o <<DigitChars[(n % 10) + 1]>>

\* Number::toString of an integer
NumToString(i) == IF i < 0 THEN <<"-">> \o Digits(-i) ELSE Digits(i)

\* String(x): the text of a JS value (v >= 0 for a "frac")
JSString(x) ==
    CASE x.k = "num" -> NumToString(x.v)
      [] x.k = "frac" -> NumToString(x.v) \o <<".", "5">>
      [] x.k = "str" -> x.s
      [] x.k = "null" -> <<"n", "u", "l", "l">>
      [] OTHER -> <<"u", "n", "d", "e", "f", "i", "n", "e", "d">>

\* !x
Falsy(x) ==
    \/ x.k \in {"null", "undef"}
    \/ x.k = "num" /\ x.v = 0
    \/ x.k = "str" /\ x.s = <<>>

RECURSIVE ParseDigits(_, _)
\* the value of the longest prefix of digits of t, continuing from acc
ParseDigits(t, acc) ==
    IF t = <<>> \/ ~IsDigit(Head(t)) THEN acc
    ELSE ParseDigits(Tail(t), 10 * acc + DigitVal(Head(t)))

\* parseInt(x, 10): ok = FALSE is NaN
parseInt(x) ==
    LET t == JSString(x)
        neg == t # <<>> /\ Head(t) = "-"
        u == IF t # <<>> /\ Head(t) \in {"-", "+"} THEN Tail(t) ELSE t
    IN IF u = <<>> \/ ~IsDigit(Head(u)) THEN [ok |-> FALSE, v |-> 0]
       ELSE [ok |-> TRUE,
             v |-> IF neg THEN -ParseDigits(u, 0) ELSE ParseDigits(u, 0)]

\* Array.prototype.join(","): null and undefined elements give the empty text
RECURSIVE join(_)
join(a) ==
    LET el(x) == IF x.k \in {"null", "undef"} THEN <<>> ELSE JSString(x)
    IN IF a = <<>> THEN <<>>
       ELSE IF Len(a) = 1 THEN el(a[1])
       ELSE el(a[1]) \o <<",">> \o join(Tail(a))

\* ------------------------------------------------------------ Postgres
\* text::int (int4in): an optional sign and at least one digit, nothing else
PgInt(t) ==
    LET u == IF t # <<>> /\ Head(t) \in {"-", "+"} THEN Tail(t) ELSE t
    IN IF u # <<>> /\ \A j \in 1..Len(u) : IsDigit(u[j])
       THEN [ok |-> TRUE,
             v |-> IF Head(t) = "-" THEN -ParseDigits(u, 0) ELSE ParseDigits(u, 0)]
       ELSE [ok |-> FALSE, v |-> 0]

RECURSIVE SplitComma(_, _)
\* the fields of t between commas, cur being the field read so far
SplitComma(t, cur) ==
    IF t = <<>> THEN <<cur>>
    ELSE IF Head(t) = "," THEN <<cur>> \o SplitComma(Tail(t), <<>>)
    ELSE SplitComma(Tail(t), Append(cur, Head(t)))

\* string_to_array(t, ','): the empty text gives the empty array
string_to_array(t) == IF t = <<>> THEN <<>> ELSE SplitComma(t, <<>>)

\* a JS array bound to $1::int[]: null is NULL, any other element is sent as
\* its text and read by int4in; ok = FALSE when an element is no integer text
PgIntArray(a) ==
    LET el(x) == IF x.k \in {"null", "undef"} THEN [ok |-> TRUE, isnull |-> TRUE, v |-> 0]
                 ELSE [ok |-> PgInt(JSString(x)).ok, isnull |-> FALSE,
                       v |-> PgInt(JSString(x)).v]
    IN [ok |-> \A j \in 1..Len(a) : el(a[j]).ok,
        vals |-> {el(a[j]).v : j \in {i \in 1..Len(a) : el(a[i]).ok /\ ~el(a[i]).isnull}}]

RECURSIVE Unnest(_)
\* select unnest(string_to_array(numbers, ',')) from donations: one text per
\* element, rows in table order
Unnest(rows) ==
    IF rows = <<>> THEN <<>>
    ELSE string_to_array(Head(rows).numbers) \o Unnest(Tail(rows))

\* the common table expression e: Unnest with every text cast ::int
\* (ok = FALSE: the cast raises, the query fails)
ElemRows(rows) ==
    LET t == Unnest(rows)
    IN [ok |-> \A j \in 1..Len(t) : PgInt(t[j]).ok,
        n |-> [j \in 1..Len(t) |-> PgInt(t[j]).v]]

RECURSIVE Distinct(_)
\* group by: each value once (in the order of its first row)
Distinct(q) ==
    IF q = <<>> THEN <<>>
    ELSE LET d == Distinct(SubSeq(q, 1, Len(q) - 1))
         IN IF \E j \in 1..Len(d) : d[j] = q[Len(q)] THEN d
            ELSE Append(d, q[Len(q)])

RECURSIVE SumAmount(_)
\* coalesce(sum(amount), 0)
SumAmount(rows) ==
    IF rows = <<>> THEN 0 ELSE Head(rows).amount + SumAmount(Tail(rows))

Range(q) == {q[j] : j \in 1..Len(q)}

\* ------------------------------------------------------------ constants
\* the text "venmo" as characters, and so on
venmo == <<"v", "e", "n", "m", "o">>
cashapp == <<"c", "a", "s", "h", "a", "p", "p">>
paypal == <<"p", "a", "y", "p", "a", "l">>
zelle == <<"z", "e", "l", "l", "e">>
manual == <<"m", "a", "n", "u", "a", "l">>
Methods == {venmo, cashapp, paypal, zelle, manual}

DefaultAdminPassword == <<"l", "i", "l", "i", "a", "#", "2", "0", "2", "4">>

DefaultGoal == 3500

\* the default of column bio (the text is never parsed; its first words stand
\* for the whole sentence)
DefaultBio == <<"I", "'", "m", " ", "p", "a", "s", "s", "i", "o", "n", "a", "t", "e">>

\* ------------------------------------------------------------ state
VARIABLES
    env,                \* process.env: ADMIN_PASSWORD, FORWARD_TO_APPSCRIPT_URL
    donations,          \* table donations, rows in insertion order
    donations_id_seq,   \* the bigserial sequence of donations.id: last value
    state,              \* table state: the set of its rows
    don,                \* per client, its POST /api/donations handler
    adm,                \* the POST /api/admin/state handler
    exp,                \* the GET /api/export.csv handler
    gst,                \* the GET /api/state handler
    res,                \* the response sent last (None before the first)
    nreq,               \* the number of requests received so far
    seq,                \* history: the donations sent so far, summed up
                        \* while they are well-formed, disjoint and serial
    restarts            \* history: the number of times the server was
                        \* started again on the same database

vars == <<env, donations, donations_id_seq, state, don, adm, exp, gst, res, nreq, seq,
          restarts>>

Clients == {"c1", "c2"}

\* const { ADMIN_PASSWORD = "lilia#2024" } = process.env: the default stands
\* in for undefined only
ADMIN_PASSWORD ==
    IF env.ADMIN_PASSWORD.k = "undef" THEN Str(DefaultAdminPassword)
    ELSE env.ADMIN_PASSWORD

\* (req.headers["x-admin-key"] || "") === ADMIN_PASSWORD
isAuthed(key) == (IF Falsy(key) THEN Str(<<>>) ELSE key) = ADMIN_PASSWORD

Idle == [pc |-> "idle"]

None == [kind |-> "none"]

\* InitTables that writes the defaults over the settings row
InitTablesReset(rows) ==
    {r \in rows : r.id # 1} \cup {[id |-> 1, goal |-> DefaultGoal, bio |-> DefaultBio]}

\* the three statements of init on a database
InitTables(rows) == IF \E r \in rows : r.id = 1 THEN rows
                    ELSE rows \cup {[id |-> 1, goal |-> DefaultGoal, bio |-> DefaultBio]}

Envs == [ADMIN_PASSWORD : {Undef, Str(<<>>)},
         FORWARD_TO_APPSCRIPT_URL : {Undef, Str(<<"u">>)}]

Init ==
    /\ env \in Envs
    /\ donations = <<>>
    /\ donations_id_seq = 0
    /\ state = InitTables({})
    /\ don = [c \in Clients |-> Idle]
    /\ adm = Idle
    /\ exp = Idle
    /\ gst = Idle
    /\ res = None
    /\ nreq = 0
    /\ seq = [ok |-> TRUE, n |-> 0, sum |-> 0, union |-> {}, accepted |-> 0]
    /\ restarts = 0

\* one response, as the client sees it: the request it answers and the reply
Reply(kind, req, status, out) ==
    [kind |-> kind, req |-> req, status |-> status, out |-> out]

\* res.status(...).json(...), res.send(...)
Send(r) == res' = r

\* a request is taken up (the model stops at MaxRequests requests)
Accept == nreq < MaxRequests /\ nreq' = nreq + 1

\* ------------------------------------------------------------ POST /api/donations
\* Validate that lets the amount 0 through (amount < 0 for amount <= 0)
ValidateZero(b) ==
    IF b.numbers.k # "arr" \/ Len(b.numbers.a) = 0 THEN "numbers[] required"
    ELSE IF b.amount.k # "num" \/ b.amount.v < 0 THEN "invalid amount"
    ELSE IF ~(b.method.k = "str" /\ b.method.s \in Methods) THEN "invalid method"
    ELSE IF Falsy(b.donorName) \/ Falsy(b.donorPhone) \/ Falsy(b.donorAddress)
         THEN "donor info required"
    ELSE "ok"

\* Validate with the amount checked before numbers
ValidateAmountFirst(b) ==
    IF b.amount.k # "num" \/ b.amount.v <= 0 THEN "invalid amount"
    ELSE IF b.numbers.k # "arr" \/ Len(b.numbers.a) = 0 THEN "numbers[] required"
    ELSE IF ~(b.method.k = "str" /\ b.method.s \in Methods) THEN "invalid method"
    ELSE IF Falsy(b.donorName) \/ Falsy(b.donorPhone) \/ Falsy(b.donorAddress)
         THEN "donor info required"
    ELSE "ok"

\* the four validation lines, in order: the error of the first that fails
Validate(b) ==
    IF b.numbers.k # "arr" \/ Len(b.numbers.a) = 0 THEN "numbers[] required"
    ELSE IF b.amount.k # "num" \/ b.amount.v <= 0 THEN "invalid amount"
    ELSE IF ~(b.method.k = "str" /\ b.method.s \in Methods) THEN "invalid method"
    ELSE IF Falsy(b.donorName) \/ Falsy(b.donorPhone) \/ Falsy(b.donorAddress)
         THEN "donor info required"
    ELSE "ok"

\* the conflict-check query on the table rows with $1 = numbers:
\* select n from e where n = any($1::int[])
ConflictQuery(rows, numbers) ==
    LET arr == PgIntArray(numbers)
        e == ElemRows(rows)
        hit(n) == n \in arr.vals
    IN [ok |-> arr.ok /\ e.ok,
        rows |-> IF arr.ok /\ e.ok THEN SelectSeq(e.n, hit) ELSE <<>>]

\* Conflicts that reports the whole submission once any number is taken
ConflictsWhole(qrows, numbers) ==
    IF \E j \in 1..Len(numbers) :
          numbers[j].k = "num" /\ numbers[j].v \in Range(qrows)
    THEN numbers ELSE <<>>

\* numbers.filter(n => already.has(n)): Set.has finds a number by its value and
\* nothing that is not a number
Conflicts(qrows, numbers) ==
    LET already == Range(qrows)
        has(x) == x.k = "num" /\ x.v \in already
    IN SelectSeq(numbers, has)

\* now(), the default of column created_at: time is read off a logical clock,
\* the number of requests received so far
now == nreq

RECURSIVE SumNums(_)
SumNums(a) == IF a = <<>> THEN 0
              ELSE (IF Head(a).k = "num" THEN Head(a).v ELSE 0) + SumNums(Tail(a))

\* NewRow that stores the sum of the numbers as the amount
NewRowSummed(id, b) ==
    [id |-> id, amount |-> SumNums(b.numbers.a), numbers |-> join(b.numbers.a),
     method |-> JSString(b.method), donor_name |-> JSString(b.donorName),
     donor_phone |-> JSString(b.donorPhone),
     donor_address |-> JSString(b.donorAddress), created_at |-> now]

\* the row the insert statement adds
NewRow(id, b) ==
    [id |-> id, amount |-> b.amount.v, numbers |-> join(b.numbers.a),
     method |-> JSString(b.method), donor_name |-> JSString(b.donorName),
     donor_phone |-> JSString(b.donorPhone),
     donor_address |-> JSString(b.donorAddress), created_at |-> now]

\* ---- the history variable seq (no handler reads it)
\* a donation as the interface documents it: a non-empty list of integers, a
\* positive integer amount, a known method, three non-empty donor texts
WellFormed(b) ==
    /\ b.numbers.k = "arr" /\ Len(b.numbers.a) > 0
    /\ \A j \in 1..Len(b.numbers.a) : b.numbers.a[j].k = "num"
    /\ b.amount.k = "num" /\ b.amount.v > 0
    /\ b.method.k = "str" /\ b.method.s \in Methods
    /\ \A d \in {b.donorName, b.donorPhone, b.donorAddress} :
          d.k = "str" /\ d.s # <<>>

\* the integers of a list of integers
NumSet(numbers) == {numbers.a[j].v : j \in 1..Len(numbers.a)}

SeqBroken == [ok |-> FALSE, n |-> 0, sum |-> 0, union |-> {}, accepted |-> 0]

\* client c sends b: the history goes on while b is well-formed, shares no
\* number with the donations before it and no other donation is in progress
SeqSend(c, b) ==
    IF /\ seq.ok /\ WellFormed(b)
       /\ NumSet(b.numbers) \cap seq.union = {}
       /\ \A d \in Clients : don[d].pc = "idle"
    THEN [seq EXCEPT !.n = @ + 1, !.sum = @ + b.amount.v,
                     !.union = @ \cup NumSet(b.numbers)]
    ELSE SeqBroken

\* a donation is answered
SeqAnswer(status) ==
    IF seq.ok /\ status = 201 THEN [seq EXCEPT !.accepted = @ + 1] ELSE seq

\* the request arrives: validation, then the conflict-check query is issued
DonationReceive(c, b) ==
    /\ don[c].pc = "idle"
    /\ Accept
    /\ IF Validate(b) # "ok"
       THEN /\ Send(Reply("donation", b, 400,
                                          [error |-> Validate(b)]))
            /\ don' = don
       ELSE /\ don' = [don EXCEPT ![c] = [pc |-> "check", body |-> b]]
            /\ res' = res
    /\ seq' = SeqSend(c, b)
    /\ UNCHANGED <<env, restarts, donations, donations_id_seq, state, adm, exp, gst>>

\* the database runs the conflict check; the handler goes on to 409 or to
\* issuing the insert (a failed query goes to the error handler: 500)
ConflictCheck(c) ==
    /\ don[c].pc = "check"
    /\ LET b == don[c].body
           q == ConflictQuery(donations, b.numbers.a)
           conflicts == Conflicts(q.rows, b.numbers.a)
       IN IF ~q.ok
          THEN /\ Send(Reply("donation", b, 500,
                                             [error |-> "server_error"]))
               /\ don' = [don EXCEPT ![c] = Idle]
               /\ seq' = SeqAnswer(500)
          ELSE IF Len(conflicts) # 0
          THEN /\ Send(Reply("donation", b, 409,
                             [error |-> "numbers already taken",
                              conflicts |-> conflicts]))
               /\ don' = [don EXCEPT ![c] = Idle]
               /\ seq' = SeqAnswer(409)
          ELSE /\ don' = [don EXCEPT ![c] = [pc |-> "insert", body |-> b]]
               /\ res' = res
               /\ seq' = seq
    /\ UNCHANGED <<env, restarts, donations, donations_id_seq, state, adm, exp, gst, nreq>>

\* the integers a stored row claims: the elements of its numbers text that
\* read as integers
RowNums(r) ==
    LET t == string_to_array(r.numbers)
    IN {PgInt(t[j]).v : j \in {i \in 1..Len(t) : PgInt(t[i]).ok}}

\* Insert with a uniqueness constraint per claimed number: the statement
\* fails (500) when a stored row already claims one of the numbers
InsertUnique(c) ==
    /\ don[c].pc = "insert"
    /\ LET b == don[c].body
           taken == UNION {RowNums(donations[j]) : j \in 1..Len(donations)}
       IN IF RowNums(NewRow(0, b)) \cap taken # {}
          THEN /\ Send(Reply("donation", b, 500, [error |-> "server_error"]))
               /\ don' = [don EXCEPT ![c] = Idle]
               /\ seq' = SeqAnswer(500)
               /\ UNCHANGED <<donations, donations_id_seq>>
          ELSE /\ donations_id_seq' = donations_id_seq + 1
               /\ donations' = Append(donations, NewRow(donations_id_seq + 1, b))
               /\ don' = [don EXCEPT ![c] = Idle]
               /\ Send(Reply("donation", b, 201, [ok |-> TRUE, forward |-> "none"]))
               /\ seq' = SeqAnswer(201)
    /\ UNCHANGED <<env, restarts, state, adm, exp, gst, nreq>>

\* Insert as an upsert on the numbers text: a stored row with the same text
\* is written over (it keeps its id), otherwise the row is appended
InsertUpsert(c) ==
    /\ don[c].pc = "insert"
    /\ LET b == don[c].body
           same == {j \in 1..Len(donations) : donations[j].numbers = join(b.numbers.a)}
       IN /\ IF same = {}
             THEN /\ donations_id_seq' = donations_id_seq + 1
                  /\ donations' = Append(donations, NewRow(donations_id_seq + 1, b))
             ELSE /\ donations_id_seq' = donations_id_seq
                  /\ donations' = [j \in 1..Len(donations) |->
                                     IF j \in same THEN NewRow(donations[j].id, b)
                                     ELSE donations[j]]
          /\ IF ~Falsy(env.FORWARD_TO_APPSCRIPT_URL)
             THEN /\ don' = [don EXCEPT ![c] = [pc |-> "forward", body |-> b]]
                  /\ res' = res
                  /\ seq' = seq
             ELSE /\ don' = [don EXCEPT ![c] = Idle]
                  /\ Send(Reply("donation", b, 201,
                                     [ok |-> TRUE, forward |-> "none"]))
                  /\ seq' = SeqAnswer(201)
    /\ UNCHANGED <<env, restarts, state, adm, exp, gst, nreq>>

\* the database runs the insert; the handler then forwards (when configured)
\* or answers 201
Insert(c) ==
    /\ don[c].pc = "insert"
    /\ LET b == don[c].body
       IN /\ donations_id_seq' = donations_id_seq + 1
          /\ donations' = Append(donations, NewRow(donations_id_seq + 1, b))
          /\ IF ~Falsy(env.FORWARD_TO_APPSCRIPT_URL)
             THEN /\ don' = [don EXCEPT ![c] = [pc |-> "forward", body |-> b]]
                  /\ res' = res
                  /\ seq' = seq
             ELSE /\ don' = [don EXCEPT ![c] = Idle]
                  /\ Send(Reply("donation", b, 201,
                                     [ok |-> TRUE, forward |-> "none"]))
                  /\ seq' = SeqAnswer(201)
    /\ UNCHANGED <<env, restarts, state, adm, exp, gst, nreq>>

\* the conflict-check query fails in the store (the store is unreachable, the
\* statement is aborted): pool.query rejects, catch hands the error to the
\* error handler, which answers 500.  The history ends here.
ConflictCheckFail(c) ==
    /\ don[c].pc = "check"
    /\ Send(Reply("donation", don[c].body, 500, [error |-> "server_error"]))
    /\ don' = [don EXCEPT ![c] = Idle]
    /\ seq' = SeqBroken
    /\ UNCHANGED <<env, restarts, donations, donations_id_seq, state, adm, exp, gst, nreq>>

\* InsertFail whose statement has stored the row when the error is reported
InsertFailStored(c) ==
    /\ don[c].pc = "insert"
    /\ donations_id_seq' = donations_id_seq + 1
    /\ donations' = Append(donations, NewRow(donations_id_seq + 1, don[c].body))
    /\ Send(Reply("donation", don[c].body, 500, [error |-> "server_error"]))
    /\ don' = [don EXCEPT ![c] = Idle]
    /\ seq' = SeqBroken
    /\ UNCHANGED <<env, restarts, state, adm, exp, gst, nreq>>

\* the insert statement fails in the store: a failed statement stores nothing
\* (it may have drawn a value from the id sequence, which is not given back);
\* pool.query rejects and the error handler answers 500
InsertFail(c) ==
    /\ don[c].pc = "insert"
    /\ donations_id_seq' \in {donations_id_seq, donations_id_seq + 1}
    /\ donations' = donations
    /\ Send(Reply("donation", don[c].body, 500, [error |-> "server_error"]))
    /\ don' = [don EXCEPT ![c] = Idle]
    /\ seq' = SeqBroken
    /\ UNCHANGED <<env, restarts, state, adm, exp, gst, nreq>>

\* ForwardSettle that hands a rejected forward to the error handler
ForwardSettleStrict(c, fulfilled) ==
    /\ don[c].pc = "forward"
    /\ don' = [don EXCEPT ![c] = Idle]
    /\ IF fulfilled
       THEN Send(Reply("donation", don[c].body, 201,
                       [ok |-> TRUE, forward |-> "fulfilled"]))
       ELSE Send(Reply("donation", don[c].body, 500, [error |-> "server_error"]))
    /\ seq' = SeqAnswer(IF fulfilled THEN 201 ELSE 500)
    /\ UNCHANGED <<env, restarts, donations, donations_id_seq, state, adm, exp, gst, nreq>>

\* await axios.post(...) settles, fulfilled or rejected (caught and logged):
\* only then is 201 sent
ForwardSettle(c, fulfilled) ==
    /\ don[c].pc = "forward"
    /\ don' = [don EXCEPT ![c] = Idle]
    /\ Send(Reply("donation", don[c].body, 201,
                  [ok |-> TRUE,
                   forward |-> IF fulfilled THEN "fulfilled" ELSE "rejected"]))
    /\ seq' = SeqAnswer(201)
    /\ UNCHANGED <<env, restarts, donations, donations_id_seq, state, adm, exp, gst, nreq>>

\* ------------------------------------------------------------ GET /api/state
\* select coalesce(sum(amount),0)::int as raised, count(*)::int as donations
QTotals(rows) == [raised |-> SumAmount(rows), donations |-> Len(rows)]

\* with e as (...) select n from e group by n
QTaken(rows) ==
    LET e == ElemRows(rows)
    IN [ok |-> e.ok, n |-> IF e.ok THEN Distinct(e.n) ELSE <<>>]

\* select goal, bio from state where id=1
QSettings(st) == {r \in st : r.id = 1}

\* res.json({...}) from the three results
StateJson(totals, taken, st) ==
    [raised |-> totals.raised,
     donationCount |-> totals.donations,
     goal |-> IF st = {} THEN DefaultGoal ELSE (CHOOSE r \in st : TRUE).goal,
     bio |-> IF st = {} THEN <<>> ELSE (CHOOSE r \in st : TRUE).bio,
     takenNumbers |-> taken]

StateQueries == {"totals", "taken", "st"}

\* the request arrives: Promise.all issues the three queries
GetStateReceive ==
    /\ gst.pc = "idle"
    /\ Accept
    /\ gst' = [pc |-> "run", todo |-> StateQueries,
               totals |-> QTotals(<<>>), taken |-> <<>>, st |-> {}]
    /\ UNCHANGED <<env, restarts, donations, donations_id_seq, state, don, adm, exp, res, seq>>

\* the database runs one of the three queries; the first failure answers 500,
\* the last result answers with the JSON
GetStateQuery(qn) ==
    /\ gst.pc = "run"
    /\ qn \in gst.todo
    /\ LET g == CASE qn = "totals" -> [gst EXCEPT !.totals = QTotals(donations)]
                  [] qn = "taken" -> [gst EXCEPT !.taken = QTaken(donations).n]
                  [] OTHER -> [gst EXCEPT !.st = QSettings(state)]
       IN IF qn = "taken" /\ ~QTaken(donations).ok
          THEN /\ Send(Reply("state", Null, 500,
                                             [error |-> "server_error"]))
               /\ gst' = Idle
          ELSE IF gst.todo = {qn}
          THEN /\ Send(Reply("state", Null, 200,
                                     StateJson(g.totals, g.taken, g.st)))
               /\ gst' = Idle
          ELSE /\ gst' = [g EXCEPT !.todo = gst.todo \ {qn}]
               /\ res' = res
    /\ UNCHANGED <<env, restarts, donations, donations_id_seq, state, don, adm, exp, nreq, seq>>

\* what GET /api/state answers when its three queries see this database
StateView(rows, st) ==
    IF QTaken(rows).ok
    THEN [status |-> 200, out |-> StateJson(QTotals(rows), QTaken(rows).n, QSettings(st))]
    ELSE [status |-> 500, out |-> [error |-> "server_error"]]

\* ------------------------------------------------------------ GET /api/export.csv
RECURSIVE Reverse(_)
Reverse(q) == IF q = <<>> THEN <<>> ELSE Append(Reverse(Tail(q)), Head(q))

\* the names of the CSV columns, in the order of the object literal
ExportColumns == <<"id", "amount", "numbers", "method", "donor_name",
                   "donor_phone", "donor_address", "created_at">>

\* select * from donations order by id desc, each row mapped to the export's
\* object (ids are assigned in insertion order)
ExportRows(rows) ==
    LET r == Reverse(rows)
    IN [j \in 1..Len(r) |-> [col \in Range(ExportColumns) |-> r[j][col]]]

Quote == "\""

\* the text of a cell: pg returns id (bigint) as its decimal text, the writer
\* casts amount with String and created_at (a Date) to the digits of its time
CellText(col, x) ==
    IF col \in {"id", "amount", "created_at"} THEN NumToString(x) ELSE x

RECURSIVE Doubled(_)
\* every quote written twice
Doubled(t) ==
    IF t = <<>> THEN <<>>
    ELSE (IF Head(t) = Quote THEN <<Quote, Quote>> ELSE <<Head(t)>>) \o Doubled(Tail(t))

\* a field as the writer puts it: quoted when it holds a delimiter, a quote
\* or a line break
CsvField(t) ==
    IF \E j \in 1..Len(t) : t[j] \in {",", Quote, "\n"}
    THEN <<Quote>> \o Doubled(t) \o <<Quote>>
    ELSE t

RECURSIVE CsvLine(_)
\* the fields of a record, comma-separated
CsvLine(fields) ==
    IF Len(fields) = 1 THEN CsvField(fields[1])
    ELSE CsvField(Head(fields)) \o <<",">> \o CsvLine(Tail(fields))

RECURSIVE CsvLines(_)
\* each record followed by a line break
CsvLines(recs) ==
    IF recs = <<>> THEN <<>>
    ELSE CsvLine(Head(recs)) \o <<"\n">> \o CsvLines(Tail(recs))

\* the CSV text without the header line: one line per object
StringifyBare(out) ==
    CsvLines([j \in 1..Len(out) |->
                 [k \in 1..Len(ExportColumns) |->
                     CellText(ExportColumns[k], out[j][ExportColumns[k]])]])

\* stringify(out, { header: true }): the columns are read off the first
\* object, so no object gives the empty text; a column name is written as
\* one symbol
stringify(out) ==
    IF out = <<>> THEN <<>>
    ELSE CsvLines(<<[k \in 1..Len(ExportColumns) |-> <<ExportColumns[k]>>]>>)
         \o StringifyBare(out)

\* the request arrives: 401, or the query is issued
ExportReceive(key) ==
    /\ exp.pc = "idle"
    /\ Accept
    /\ IF ~isAuthed(key)
       THEN /\ Send(Reply("export", [key |-> key], 401,
                                          [error |-> "unauthorized"]))
            /\ exp' = exp
       ELSE /\ exp' = [pc |-> "query", key |-> key]
            /\ res' = res
    /\ UNCHANGED <<env, restarts, donations, donations_id_seq, state, don, adm, gst, seq>>

\* the database runs the query; the CSV is sent
ExportQuery ==
    /\ exp.pc = "query"
    /\ Send(Reply("export", [key |-> exp.key], 200,
                  stringify(ExportRows(donations))))
    /\ exp' = Idle
    /\ UNCHANGED <<env, restarts, donations, donations_id_seq, state, don, adm, gst, nreq, seq>>

\* ------------------------------------------------------------ POST /api/admin/state
\* parseInt(goal, 10) || 3500
GoalParam(goal) ==
    IF parseInt(goal).ok /\ parseInt(goal).v # 0 THEN parseInt(goal).v
    ELSE DefaultGoal

\* UpdateBio that writes the whole row, the goal back at its default
UpdateBioRow(st, bio) ==
    {IF r.id = 1 THEN [r EXCEPT !.bio = bio, !.goal = DefaultGoal] ELSE r : r \in st}

\* update state set bio=$1 where id=1
UpdateBio(st, bio) == {IF r.id = 1 THEN [r EXCEPT !.bio = bio] ELSE r : r \in st}

\* update state set goal=$1 where id=1
UpdateGoal(st, goal) == {IF r.id = 1 THEN [r EXCEPT !.goal = goal] ELSE r : r \in st}

AdminOk(req) == Reply("admin", [key |-> req.key], 200, [ok |-> TRUE])

\* the request arrives: 401, or the first update is issued, or (neither field
\* present) the answer is sent at once
AdminReceive(key, b) ==
    /\ adm.pc = "idle"
    /\ Accept
    /\ LET req == [key |-> key, body |-> b]
       IN IF ~isAuthed(key)
          THEN /\ Send(Reply("admin", [key |-> key], 401,
                                             [error |-> "unauthorized"]))
               /\ adm' = adm
          ELSE IF b.bio.k # "undef"
          THEN /\ adm' = [pc |-> "bio", req |-> req]
               /\ res' = res
          ELSE IF b.goal.k # "undef"
          THEN /\ adm' = [pc |-> "goal", req |-> req]
               /\ res' = res
          ELSE /\ Send(AdminOk(req))
               /\ adm' = adm
    /\ UNCHANGED <<env, restarts, donations, donations_id_seq, state, don, exp, gst, seq>>

\* the database runs the bio update; the goal update is issued or the answer sent
AdminUpdateBio ==
    /\ adm.pc = "bio"
    /\ state' = UpdateBio(state, JSString(adm.req.body.bio))
    /\ IF adm.req.body.goal.k # "undef"
       THEN /\ adm' = [adm EXCEPT !.pc = "goal"]
            /\ res' = res
       ELSE /\ Send(AdminOk(adm.req))
            /\ adm' = Idle
    /\ UNCHANGED <<env, restarts, donations, donations_id_seq, don, exp, gst, nreq, seq>>

\* the database runs the goal update; the answer is sent
AdminUpdateGoal ==
    /\ adm.pc = "goal"
    /\ state' = UpdateGoal(state, GoalParam(adm.req.body.goal))
    /\ Send(AdminOk(adm.req))
    /\ adm' = Idle
    /\ UNCHANGED <<env, restarts, donations, donations_id_seq, don, exp, gst, nreq, seq>>

\* ------------------------------------------------------------ startup
\* the process is started again on the same database: the requests in flight
\* end with the old process (a statement the database has not run yet is
\* lost), then await init() runs its three statements on the tables as they
\* are.  The sequence and the tables live in the database.
Restart ==
    /\ restarts < MaxRestarts
    /\ state' = InitTables(state)
    /\ don' = [c \in Clients |-> Idle]
    /\ adm' = Idle
    /\ exp' = Idle
    /\ gst' = Idle
    /\ seq' = IF \A c \in Clients : don[c].pc = "idle" THEN seq ELSE SeqBroken
    /\ restarts' = restarts + 1
    /\ UNCHANGED <<env, donations, donations_id_seq, res, nreq>>

\* ------------------------------------------------------------ requests
\* a donation body with every field valid but numbers
Donation(amount, numbers) ==
    [amount |-> Num(amount), numbers |-> numbers, method |-> Str(venmo),
     donorName |-> Str(<<"A">>), donorPhone |-> Str(<<"1">>),
     donorAddress |-> Str(<<"X">>)]

\* the values of numbers that clients send: lists of integers (disjoint,
\* overlapping, repeating, out of 1..80) and lists with other elements
NumbersInputs ==
    {Arr(<<Num(1), Num(2)>>), Arr(<<Num(2), Num(3)>>), Arr(<<Num(3)>>),
     Arr(<<Num(2), Num(2)>>), Arr(<<Num(81)>>), Arr(<<Num(0)>>),
     Arr(<<Str(<<"2">>)>>), Arr(<<Null>>), Arr(<<Num(1), Null>>),
     Arr(<<Str(<<"x">>)>>), Arr(<<Frac(1)>>)}

DonationInputs == {Donation(5, n) : n \in NumbersInputs}

\* the donations of the donation side: lists of integers, and the two lists
\* with another element that pass the conflict check
DonInputs ==
    {Donation(5, n) : n \in {Arr(<<Num(1), Num(2)>>), Arr(<<Num(2), Num(3)>>),
                             Arr(<<Num(3)>>), Arr(<<Num(2), Num(2)>>),
                             Arr(<<Str(<<"2">>)>>), Arr(<<Num(1), Null>>)}}
    \cup {Donation(3, Arr(<<Num(1)>>))}

\* well-formed donations
RaceInputs ==
    {Donation(5, n) : n \in {Arr(<<Num(1), Num(2)>>), Arr(<<Num(2), Num(3)>>),
                             Arr(<<Num(3)>>)}}
    \cup {Donation(3, Arr(<<Num(1), Num(2)>>))}

\* every combination of a good or defective value per field, and a good body
\* for each of the other methods
ValInputs ==
    [amount : {Num(5), Num(0), Num(-1), Frac(1)},
     numbers : {Arr(<<Num(1)>>), Arr(<<>>), Undef},
     method : {Str(venmo), Str(<<"b", "t", "c">>), Undef},
     donorName : {Str(<<"A">>), Str(<<>>)},
     donorPhone : {Str(<<"1">>), Str(<<>>)},
     donorAddress : {Str(<<"X">>), Str(<<>>)}]
    \cup {[Donation(5, Arr(<<Num(1)>>)) EXCEPT !.method = Str(m)] : m \in Methods}
    \cup {[Donation(5, Arr(<<Num(1)>>)) EXCEPT !.amount = Str(<<"5">>)]}

\* the donations of the admin side, one with a donor name that holds a
\* quote, a comma and a line break
AdminDonInputs ==
    {Donation(5, Arr(<<Num(1), Num(2)>>)), Donation(5, Arr(<<Num(3)>>)),
     [Donation(7, Arr(<<Num(4)>>)) EXCEPT !.donorName = Str(<<"O", Quote, ",", "\n", "B">>)]}

KeyInputs == {Undef, Str(DefaultAdminPassword), Str(<<"b">>)}

AdminInputs ==
    {[bio |-> Str(<<"h", "i">>), goal |-> Undef],
     [bio |-> Null, goal |-> Undef],
     [bio |-> Undef, goal |-> Num(5000)],
     [bio |-> Undef, goal |-> Num(0)],
     [bio |-> Undef, goal |-> Num(-5)],
     [bio |-> Undef, goal |-> Frac(2)],
     [bio |-> Undef, goal |-> Str(<<"x">>)],
     [bio |-> Str(<<"h", "i">>), goal |-> Str(<<"4", "2">>)],
     [bio |-> Undef, goal |-> Undef]}

\* ------------------------------------------------------------ specification
\* the whole server
Next ==
    \/ \E c \in Clients, b \in DonationInputs : DonationReceive(c, b)
    \/ \E c \in Clients : ConflictCheck(c)
    \/ \E c \in Clients : Insert(c)
    \/ \E c \in Clients, f \in BOOLEAN : ForwardSettle(c, f)
    \/ GetStateReceive
    \/ \E qn \in StateQueries : GetStateQuery(qn)
    \/ \E key \in KeyInputs : ExportReceive(key)
    \/ ExportQuery
    \/ \E key \in KeyInputs, b \in AdminInputs : AdminReceive(key, b)
    \/ AdminUpdateBio
    \/ AdminUpdateGoal

Spec == Init /\ [][Next]_vars

\* the donation side, forwarding not configured: two clients and a reader of
\* the state
NextDon ==
    \/ \E c \in Clients, b \in DonInputs : DonationReceive(c, b)
    \/ \E c \in Clients : ConflictCheck(c)
    \/ \E c \in Clients : Insert(c)
    \/ GetStateReceive
    \/ \E qn \in StateQueries : GetStateQuery(qn)

InitDon == Init /\ env = [ADMIN_PASSWORD |-> Undef, FORWARD_TO_APPSCRIPT_URL |-> Undef]

SpecDon == InitDon /\ [][NextDon]_vars

\* two clients that send well-formed donations only
NextRace ==
    \/ \E c \in Clients, b \in RaceInputs : DonationReceive(c, b)
    \/ \E c \in Clients : ConflictCheck(c)
    \/ \E c \in Clients : Insert(c)
    \/ GetStateReceive
    \/ \E qn \in StateQueries : GetStateQuery(qn)

SpecRace == InitDon /\ [][NextRace]_vars

\* one client that sends bodies with any mix of defects
NextVal ==
    \/ \E b \in ValInputs : DonationReceive("c1", b)
    \/ ConflictCheck("c1")
    \/ Insert("c1")

SpecVal == InitDon /\ [][NextVal]_vars

\* the admin side: the two admin endpoints, a reader of the state and one
\* donor
NextAdmin ==
    \/ \E b \in AdminDonInputs : DonationReceive("c1", b)
    \/ ConflictCheck("c1")
    \/ Insert("c1")
    \/ GetStateReceive
    \/ \E qn \in StateQueries : GetStateQuery(qn)
    \/ \E key \in KeyInputs : ExportReceive(key)
    \/ ExportQuery
    \/ \E key \in KeyInputs, b \in AdminInputs : AdminReceive(key, b)
    \/ AdminUpdateBio
    \/ AdminUpdateGoal

\* forwarding not configured, the admin secret defaulted or set empty
InitAdmin == Init /\ env.FORWARD_TO_APPSCRIPT_URL = Undef

SpecAdmin == InitAdmin /\ [][NextAdmin]_vars

\* the donations of the whole API: two bodies with the same numbers, a
\* disjoint one and one that leaves a text in the ledger that is no list of
\* integers
LedgerDonInputs ==
    {Donation(5, Arr(<<Num(1), Num(2)>>)), Donation(3, Arr(<<Num(1), Num(2)>>)),
     Donation(5, Arr(<<Num(3)>>)), Donation(5, Arr(<<Num(1), Null>>))}

LedgerAdminInputs ==
    {[bio |-> Str(<<"h", "i">>), goal |-> Undef],
     [bio |-> Undef, goal |-> Num(5000)]}

LedgerKeyInputs == {Undef, Str(DefaultAdminPassword)}

\* every route that writes or needs the admin secret, with a store that may
\* fail a donation's statements; forwarding not configured
NextLedger ==
    \/ \E c \in Clients, b \in LedgerDonInputs : DonationReceive(c, b)
    \/ \E c \in Clients : ConflictCheck(c)
    \/ \E c \in Clients : ConflictCheckFail(c)
    \/ \E c \in Clients : Insert(c)
    \/ \E c \in Clients : InsertFail(c)
    \/ \E key \in LedgerKeyInputs : ExportReceive(key)
    \/ ExportQuery
    \/ \E key \in LedgerKeyInputs, b \in LedgerAdminInputs : AdminReceive(key, b)
    \/ AdminUpdateBio
    \/ AdminUpdateGoal

SpecLedger == InitDon /\ [][NextLedger]_vars

\* the donations of the store side: overlapping and disjoint lists, and a
\* body that validation rejects
StoreInputs ==
    {Donation(5, Arr(<<Num(1), Num(2)>>)), Donation(5, Arr(<<Num(2), Num(3)>>)),
     Donation(5, Arr(<<Num(3)>>)), Donation(0, Arr(<<Num(1)>>))}

\* two donors, a store that may fail either statement, and the webhook
NextStore ==
    \/ \E c \in Clients, b \in StoreInputs : DonationReceive(c, b)
    \/ \E c \in Clients : ConflictCheck(c)
    \/ \E c \in Clients : ConflictCheckFail(c)
    \/ \E c \in Clients : Insert(c)
    \/ \E c \in Clients : InsertFail(c)
    \/ \E c \in Clients, f \in BOOLEAN : ForwardSettle(c, f)

\* the admin secret defaulted, forwarding configured or not
InitStore == Init /\ env.ADMIN_PASSWORD = Undef

SpecStore == InitStore /\ [][NextStore]_vars

\* the admin and one donor, and restarts of the server
NextBoot ==
    \/ \E b \in AdminDonInputs : DonationReceive("c1", b)
    \/ ConflictCheck("c1")
    \/ Insert("c1")
    \/ \E key \in LedgerKeyInputs, b \in LedgerAdminInputs : AdminReceive(key, b)
    \/ AdminUpdateBio
    \/ AdminUpdateGoal
    \/ GetStateReceive
    \/ \E qn \in StateQueries : GetStateQuery(qn)
    \/ Restart

SpecBoot == InitDon /\ [][NextBoot]_vars

\* one donor whose requests are processed one after another: a request is
\* received only when the one before it has been answered
NextSerial ==
    \/ \E b \in DonationInputs : DonationReceive("c1", b)
    \/ ConflictCheck("c1")
    \/ Insert("c1")

SpecSerial == InitDon /\ [][NextSerial]_vars

\* ------------------------------------------------------------ claims
LastRow == donations[Len(donations)]

AllIdle == \A c \in Clients : don[c].pc = "idle"

\* C1: in every reachable state no integer is claimed by two different
\* stored donation records, whatever the interleaving of the POST
\* /api/donations requests.
C1_NoSharedNumber ==
    \A i, j \in 1..Len(donations) :
        i # j => RowNums(donations[i]) \cap RowNums(donations[j]) = {}

\* C2: the insert is not conditioned on the ledger: whenever a handler that
\* has passed its conflict check runs its insert, the record is stored with
\* the submitted numbers and amount and the request is answered 201, also
\* when another request stored the same number after the check.
C2_InsertAlwaysStores ==
    [][\A c \in Clients :
          (don[c].pc = "insert" /\ don'[c].pc # "insert") =>
             /\ Len(donations') = Len(donations) + 1
             /\ RowNums(LastRow') = NumSet(don[c].body.numbers)
             /\ LastRow'.amount = don[c].body.amount.v
             /\ res' = Reply("donation", don[c].body, 201,
                             [ok |-> TRUE, forward |-> "none"])]_vars

\* C2 witness: two requests were received, both were stored and answered, and
\* the two records claim a common number.
C2_DuplicateClaim ==
    /\ nreq = 2 /\ AllIdle /\ Len(donations) = 2
    /\ RowNums(donations[1]) \cap RowNums(donations[2]) # {}
    /\ res.kind = "donation" /\ res.status = 201

\* what GET /api/state answers in this state
View == StateView(donations, state)

\* C3: a well-formed donation whose numbers include a number of takenNumbers
\* (as GET /api/state reports it when the conflict check runs) is answered
\* 409 with conflicts exactly the submitted numbers that are taken, in the
\* order submitted; nothing is stored and GET /api/state answers as before.
C3_ConflictRejected ==
    [][\A c \in Clients :
          LET b == don[c].body
              taken == Range(View.out.takenNumbers)
              isTaken(x) == x.v \in taken
          IN (/\ don[c].pc = "check" /\ don'[c].pc # "check"
              /\ WellFormed(b)
              /\ View.status = 200
              /\ NumSet(b.numbers) \cap taken # {})
             => /\ res' = Reply("donation", b, 409,
                                [error |-> "numbers already taken",
                                 conflicts |-> SelectSeq(b.numbers.a, isTaken)])
                /\ donations' = donations
                /\ donations_id_seq' = donations_id_seq
                /\ state' = state
                /\ StateView(donations', state') = View]_vars

\* C3 witness: with [1,2] stored, [2,3] was answered 409 with conflicts [2].
C3_PartialOverlapRejected ==
    /\ Len(donations) = 1 /\ RowNums(donations[1]) = {1, 2}
    /\ res.kind = "donation" /\ res.status = 409
    /\ res.req.numbers = Arr(<<Num(2), Num(3)>>)
    /\ res.out.conflicts = <<Num(2)>>

\* C4: while the donations sent are well-formed, pairwise disjoint and sent
\* one after another (seq.ok), once all are answered every one was answered
\* 201, and GET /api/state reports the sum of their stated amounts, their
\* count and the union of their numbers.
C4_SerialDisjointSum ==
    (seq.ok /\ AllIdle) =>
        /\ seq.accepted = seq.n
        /\ View.status = 200
        /\ View.out.raised = seq.sum
        /\ View.out.donationCount = seq.n
        /\ Range(View.out.takenNumbers) = seq.union

\* C4 witness: three such donations, one with an amount that is not the sum
\* of its numbers.
C4_ThreeDonations ==
    /\ seq.ok /\ AllIdle /\ seq.n = 3 /\ Len(donations) = 3
    /\ \E j \in 1..3 : donations[j].amount = 3 /\ RowNums(donations[j]) = {1}

\* the defects C5 lists
Defective(b) ==
    \/ b.amount.k = "num" /\ b.amount.v <= 0
    \/ b.amount.k # "num"
    \/ b.numbers.k = "arr" /\ Len(b.numbers.a) = 0
    \/ ~(b.method.k = "str" /\ b.method.s \in {venmo, cashapp, paypal, zelle, manual})
    \/ \E d \in {b.donorName, b.donorPhone, b.donorAddress} : d.k = "str" /\ d.s = <<>>

\* the body of the donation request the step receives (the handler's, when it
\* goes on to the conflict check; the answer's, when it is answered at once)
ReceivedBody(c) == IF don'[c].pc = "check" THEN don'[c].body ELSE res'.req

\* C5: a donation with amount <= 0, a non-integer amount, an empty numbers
\* list, an unknown method or an empty donor field is answered 400 in the
\* step that receives it: no query is issued and the tables are unchanged.
C5_DefectRejected ==
    [][(nreq' = nreq + 1 /\ Defective(ReceivedBody("c1")))
         => /\ res'.kind = "donation" /\ res'.status = 400
            /\ don' = don
            /\ donations' = donations /\ donations_id_seq' = donations_id_seq
            /\ state' = state]_vars

\* C5 witness: with a record stored, a body whose only defect is an empty
\* donorAddress was answered 400.
C5_SingleDefectRejected ==
    /\ Len(donations) = 1
    /\ res.kind = "donation" /\ res.status = 400
    /\ res.req = [Donation(5, Arr(<<Num(1)>>)) EXCEPT !.donorAddress = Str(<<>>)]

\* C6: a donation whose numbers is a non-empty array with an element that is
\* not an integer is answered 400 and stores no record.
C6_NonIntegerRejected ==
    [][\A c \in Clients :
          LET b == don[c].body
          IN (/\ don[c].pc \in {"check", "insert"}
              /\ don'[c] # don[c]
              /\ \E j \in 1..Len(b.numbers.a) : b.numbers.a[j].k # "num")
             => /\ donations' = donations
                /\ don'[c].pc = "idle" =>
                      res'.kind = "donation" /\ res'.req = b /\ res'.status = 400]_vars

\* C7: every number stored in a donation record is an integer in 1..80.
C7_NumbersInRange ==
    \A i \in 1..Len(donations) : RowNums(donations[i]) \subseteq 1..80

\* the x-admin-key header is present and is exactly the admin secret
KeyIsSecret(key) == key.k = "str" /\ key = ADMIN_PASSWORD

\* C8: a request to GET /api/export.csv or POST /api/admin/state whose
\* x-admin-key is absent or is not the admin secret is answered 401 in the
\* step that receives it and changes no table; the settings row changes only
\* in a step of an admin update whose key is the secret.
C8_UnauthorizedRejected ==
    [][/\ adm'.pc # "idle" => KeyIsSecret(adm'.req.key)
       /\ exp'.pc # "idle" => KeyIsSecret(exp'.key)
       /\ (res'.kind \in {"admin", "export"} /\ ~KeyIsSecret(res'.req.key))
             => res'.status = 401
       /\ (res' # res /\ res'.status = 401)
             => state' = state /\ donations' = donations
       /\ state' # state
             => adm.pc \in {"bio", "goal"} /\ KeyIsSecret(adm.req.key)]_vars

\* C9: the stored goal is a positive integer in every reachable state.
C9_GoalPositive == \A r \in state : r.goal \in Nat \ {0}

\* the settings row
Settings == CHOOSE r \in state : r.id = 1

\* C10: the bio update of an authenticated POST /api/admin/state stores the
\* given text as bio (GET /api/state, where it answers, reports it) and
\* leaves goal and the ledger as they were; a request with bio only is then
\* answered 200 with no goal update; the goal update leaves bio and the
\* ledger as they were; receiving the request changes no table.
C10_AdminFrame ==
    [][/\ (adm.pc = "bio" /\ adm' # adm)
            => /\ adm.req.body.bio.k = "str" => Settings'.bio = adm.req.body.bio.s
               /\ StateView(donations', state').status = 200
                     => StateView(donations', state').out.bio = Settings'.bio
               /\ Settings'.goal = Settings.goal
               /\ donations' = donations
               /\ adm.req.body.goal.k = "undef"
                     => adm' = Idle /\ res' = AdminOk(adm.req)
       /\ (adm.pc = "goal" /\ adm' # adm)
            => /\ Settings'.bio = Settings.bio
               /\ donations' = donations
               /\ adm.req.body.goal.k # "undef"
       /\ (adm.pc = "idle" /\ adm' # adm)
            => state' = state /\ donations' = donations]_vars

\* C10 witness: with a record stored and the goal changed before, a request
\* with bio only was answered: bio is the text sent, the goal is as it was.
C10_BioOnlyDone ==
    /\ Settings.bio = <<"h", "i">> /\ Settings.goal = 5000
    /\ Len(donations) = 1
    /\ adm = Idle /\ res = Reply("admin", [key |-> res.req.key], 200, [ok |-> TRUE])

\* the integers the ledger claims
Claimed(rows) == UNION {RowNums(rows[j]) : j \in 1..Len(rows)}

\* C11: the ledger is append-only over every step of the API: the records
\* stored stay where they are with every field unchanged; the ledger grows
\* by one record at a time and only in the insert step of a POST
\* /api/donations handler, whose request is then answered 201 (at once, or
\* once the forward has settled); ids are pairwise distinct and increase in
\* insertion order; donationCount never shrinks, nor do the claimed numbers
\* (takenNumbers, wherever GET /api/state would answer).
C11_AppendOnly ==
    [][/\ Len(donations') >= Len(donations)
       /\ \A i \in 1..Len(donations) : donations'[i] = donations[i]
       /\ donations' # donations =>
             /\ Len(donations') = Len(donations) + 1
             /\ \E c \in Clients :
                   /\ don[c].pc = "insert"
                   /\ Validate(don[c].body) = "ok"
                   /\ \/ don'[c].pc = "forward"
                      \/ /\ don'[c].pc = "idle"
                         /\ res'.kind = "donation" /\ res'.status = 201
                         /\ res'.req = don[c].body
       /\ \A i, j \in 1..Len(donations') :
             i < j => donations'[i].id < donations'[j].id
       /\ QTotals(donations').donations >= QTotals(donations).donations
       /\ <<donations', state'>> # <<donations, state>> =>
             /\ Claimed(donations) \subseteq Claimed(donations')
             /\ LET before == View
                    after == StateView(donations', state')
                IN (before.status = 200 /\ after.status = 200) =>
                      /\ after.out.donationCount >= before.out.donationCount
                      /\ Range(before.out.takenNumbers)
                            \subseteq Range(after.out.takenNumbers)]_vars

\* C11 witness: two records stored around an insert that failed after it had
\* drawn an id, the older one with the fields it was stored with.
C11_TwoRecordsKept ==
    /\ Len(donations) = 2
    /\ donations[1].id = 1 /\ donations[2].id = 3
    /\ donations[1].created_at < donations[2].created_at
    /\ res.kind = "donation" /\ res.status = 201

\* C12: for every reachable ledger, also one that holds a number more than
\* once, GET /api/state answers with takenNumbers, which holds no number
\* twice and is as a set the union of the numbers of all records.
C12_TakenNumbersUnion ==
    /\ View.status = 200
    /\ \A i, j \in 1..Len(View.out.takenNumbers) :
          i # j => View.out.takenNumbers[i] # View.out.takenNumbers[j]
    /\ Range(View.out.takenNumbers) = Claimed(donations)

\* r is a record of the donation b
RecordOf(r, b) ==
    /\ r.amount = b.amount.v
    /\ r.numbers = join(b.numbers.a)
    /\ r.method = b.method.s
    /\ r.donor_name = JSString(b.donorName)
    /\ r.donor_phone = JSString(b.donorPhone)
    /\ r.donor_address = JSString(b.donorAddress)

\* C13: with forwarding configured, when the webhook call of a donation
\* settles, failed or not, the donation's record is in the ledger, the
\* ledger is left alone and the request is answered 201 {ok: true}; the
\* forward starts only in the step in which the donation's insert has stored
\* its record, so never for a donation that was rejected; and an insert
\* that stored its record does start it.
C13_ForwardFailureHarmless ==
    [][\A c \in Clients :
          /\ (don[c].pc = "forward" /\ don'[c] # don[c]) =>
                /\ don'[c].pc = "idle"
                /\ res'.kind = "donation" /\ res'.req = don[c].body
                /\ res'.status = 201 /\ res'.out.ok = TRUE
                /\ donations' = donations
                /\ \E i \in 1..Len(donations) : RecordOf(donations[i], don[c].body)
          /\ (don[c].pc # "forward" /\ don'[c].pc = "forward") =>
                /\ ~Falsy(env.FORWARD_TO_APPSCRIPT_URL)
                /\ don[c].pc = "insert"
                /\ Len(donations') = Len(donations) + 1
                /\ RecordOf(LastRow', don[c].body)
                /\ don'[c].body = don[c].body
                /\ res' = res
          /\ (/\ ~Falsy(env.FORWARD_TO_APPSCRIPT_URL)
              /\ don[c].pc = "insert" /\ don'[c] # don[c]
              /\ donations' # donations) =>
                don'[c].pc = "forward"]_vars

\* C13 witness: the forward of a stored donation was rejected and the
\* request was answered 201.
C13_RejectedForwardCreated ==
    /\ res.kind = "donation" /\ res.status = 201
    /\ res.out.forward = "rejected"
    /\ \E i \in 1..Len(donations) : RecordOf(donations[i], res.req)

\* C14: the step in which the insert of a donation has stored its record
\* sends the 201 response: the handler does not wait for the webhook call.
C14_ResponseNotBlocked ==
    [][\A c \in Clients :
          (don[c].pc = "insert" /\ don'[c] # don[c] /\ donations' # donations) =>
             /\ don'[c].pc = "idle"
             /\ res'.kind = "donation" /\ res'.req = don[c].body
             /\ res'.status = 201]_vars

\* C19: a POST /api/donations request appends at most one record, and one
\* exactly if it is answered 201.  Its handler goes from idle to the check,
\* to the insert, (to the forward) and back to idle, issuing each statement
\* once; a record is stored in the step that leaves the insert, and only
\* there; the handler is answered 201 exactly when that step stored the
\* record (at once, or after the forward); a request answered 400, 409 or
\* 500 has left the ledger as it was.
C19_OneRecordIffCreated ==
    [][/\ Len(donations') \in {Len(donations), Len(donations) + 1}
       /\ donations' # donations => \E c \in Clients : don'[c] # don[c]
       /\ (nreq' = nreq + 1 /\ don' = don) =>
             /\ res'.kind = "donation" /\ res'.status = 400
             /\ donations' = donations
       /\ \A c \in Clients :
             LET mine == don'[c] # don[c]
                 stored == mine /\ donations' # donations
             IN /\ (mine /\ don[c].pc = "idle") =>
                      don'[c].pc = "check" /\ nreq' = nreq + 1
                /\ (mine /\ don[c].pc = "check") => don'[c].pc \in {"insert", "idle"}
                /\ (mine /\ don[c].pc = "insert") => don'[c].pc \in {"forward", "idle"}
                /\ (mine /\ don[c].pc = "forward") => don'[c].pc = "idle"
                /\ stored => don[c].pc = "insert"
                /\ (mine /\ don'[c].pc = "forward") => stored
                /\ (mine /\ don'[c].pc = "idle") =>
                      /\ res'.kind = "donation" /\ res'.req = don[c].body
                      /\ res'.status \in {201, 409, 500}
                      /\ res'.status = 201 <=> (stored \/ don[c].pc = "forward")]_vars

\* C19 witness: the insert of the first request failed in the store (it had
\* drawn an id): the request was answered 500 and the ledger is empty.
C19_InsertFailedNothingStored ==
    /\ nreq = 1 /\ AllIdle
    /\ res.kind = "donation" /\ res.status = 500
    /\ donations = <<>> /\ donations_id_seq = 1

\* ---- a reader of CSV text (quoted fields, quotes doubled inside them)
\* position i of t is outside every quoted field
Outside(t, i) == Cardinality({j \in 1..(i - 1) : t[j] = Quote}) % 2 = 0

\* the pieces of t between the positions in seps, in order
Pieces(t, seps) ==
    LET n == Cardinality(seps)
        pos(k) == IF k = 0 THEN 0
                  ELSE IF k = n + 1 THEN Len(t) + 1
                  ELSE CHOOSE i \in seps : Cardinality({j \in seps : j < i}) = k - 1
    IN [k \in 1..(n + 1) |-> SubSeq(t, pos(k - 1) + 1, pos(k) - 1)]

RECURSIVE Undouble(_)
\* every doubled quote read as one
Undouble(t) ==
    IF t = <<>> THEN <<>>
    ELSE IF Head(t) = Quote /\ Len(t) >= 2 /\ t[2] = Quote
    THEN <<Quote>> \o Undouble(Tail(Tail(t)))
    ELSE <<Head(t)>> \o Undouble(Tail(t))

\* the content of a field
Unquote(f) ==
    IF f # <<>> /\ Head(f) = Quote THEN Undouble(SubSeq(f, 2, Len(f) - 1)) ELSE f

\* the lines of t: each ends at a line break outside quotes
CsvRecords(t) ==
    LET p == Pieces(t, {i \in 1..Len(t) : t[i] = "\n" /\ Outside(t, i)})
    IN IF p[Len(p)] = <<>> THEN SubSeq(p, 1, Len(p) - 1) ELSE p

\* the fields of a line: split at the commas outside quotes
CsvFields(line) ==
    LET p == Pieces(line, {i \in 1..Len(line) : line[i] = "," /\ Outside(line, i)})
    IN [k \in 1..Len(p) |-> Unquote(p[k])]

\* the records of t, each the sequence of its fields
CsvRead(t) == [k \in 1..Len(CsvRecords(t)) |-> CsvFields(CsvRecords(t)[k])]

\* the cells the export documents for a record, in the documented order
ExpectedCells(r) ==
    <<NumToString(r.id), NumToString(r.amount), r.numbers, r.method,
      r.donor_name, r.donor_phone, r.donor_address, NumToString(r.created_at)>>

\* C15: GET /api/export.csv reaches its query only with the admin secret in
\* x-admin-key and is answered 401 otherwise; the answer to the query, read
\* as CSV, has one data row per stored record, none missing and none
\* repeated, under the header id, amount, numbers, method, donor_name,
\* donor_phone, donor_address, created_at, each row holding these fields of
\* its record in this order; no step of the export changes a table.
C15_ExportRows ==
    [][/\ exp'.pc = "query" => KeyIsSecret(exp'.key)
       /\ (res'.kind = "export" /\ ~KeyIsSecret(res'.req.key)) => res'.status = 401
       /\ (exp' # exp \/ (nreq' # nreq /\ res'.kind = "export" /\ res' # res)) =>
             /\ donations' = donations
             /\ donations_id_seq' = donations_id_seq
             /\ state' = state
       /\ (exp.pc = "query" /\ exp' # exp) =>
             LET lines == CsvRead(res'.out)
                 data == IF lines = <<>> THEN <<>> ELSE Tail(lines)
             IN /\ res'.kind = "export" /\ res'.status = 200
                /\ lines # <<>> =>
                      lines[1] = <<<<"id">>, <<"amount">>, <<"numbers">>, <<"method">>,
                                   <<"donor_name">>, <<"donor_phone">>,
                                   <<"donor_address">>, <<"created_at">>>>
                /\ Len(data) = Len(donations)
                /\ \A i \in 1..Len(donations) :
                      Cardinality({j \in 1..Len(data) :
                                      data[j] = ExpectedCells(donations[i])}) = 1]_vars

\* the four checks, each on its own
NumbersCheckFails(b) == ~(b.numbers.k = "arr" /\ Len(b.numbers.a) > 0)

AmountCheckFails(b) == ~(b.amount.k = "num" /\ b.amount.v > 0)

MethodCheckFails(b) ==
    ~(b.method.k = "str" /\ b.method.s \in {venmo, cashapp, paypal, zelle, manual})

DonorCheckFails(b) ==
    \E d \in {b.donorName, b.donorPhone, b.donorAddress} : d.k # "str" \/ d.s = <<>>

\* the checks a body fails, numbered in the documented order
FailedChecks(b) ==
    {n \in 1..4 : <<NumbersCheckFails(b), AmountCheckFails(b),
                     MethodCheckFails(b), DonorCheckFails(b)>>[n]}

CheckErrors ==
    <<"numbers[] required", "invalid amount", "invalid method", "donor info required">>

\* C16: a POST /api/donations body is checked in the order numbers, amount,
\* method, donor fields: a body that fails one or several checks is answered
\* 400 with the error of the failing check that comes first in this order,
\* and a body that fails none goes on to the conflict check.
C16_ValidationOrder ==
    [][nreq' = nreq + 1 =>
         LET b == ReceivedBody("c1")
             failed == FailedChecks(b)
             first == CHOOSE n \in failed : \A m \in failed : n <= m
         IN IF failed = {} THEN don'["c1"].pc = "check" /\ res' = res
            ELSE /\ don' = don
                 /\ res' = Reply("donation", b, 400, [error |-> CheckErrors[first]])]_vars

\* C16 witness: a body that fails all four checks was answered with the
\* error of the numbers check.
C16_AllFailNumbersFirst ==
    /\ res.kind = "donation" /\ res.status = 400
    /\ FailedChecks(res.req) = 1..4
    /\ res.out.error = "numbers[] required"

\* C17: the first init creates the settings row with the defaults; in every
\* state reached the settings table holds exactly one row; and a restart of
\* the server (init run again), in whatever state, leaves goal, bio and the
\* ledger as they were.
C17_InitIdempotent ==
    /\ state = {[id |-> 1, goal |-> 3500, bio |-> DefaultBio]}
    /\ [][/\ Cardinality(state') = 1
          /\ restarts' # restarts =>
                /\ Settings'.goal = Settings.goal
                /\ Settings'.bio = Settings.bio
                /\ donations' = donations]_vars

\* C17 witness: the server was restarted after the admin had set goal and
\* bio and a donation was stored: the settings row holds the admin's values.
C17_RestartedWithSettings ==
    /\ restarts > 0
    /\ state = {[id |-> 1, goal |-> 5000, bio |-> <<"h", "i">>]}
    /\ Len(donations) = 1

\* C18: when the POST /api/donations requests are processed one after
\* another (no insert of another request between a request's conflict check
\* and its own insert), no number is in the numbers of two different
\* donation records, in any state reached.
C18_SerialNoSharedNumber ==
    \A i \in 1..Len(donations) :
        \A n \in RowNums(donations[i]) :
            \A j \in 1..Len(donations) : n \in RowNums(donations[j]) => j = i

====
